---- MODULE Spec2Model ----
(***************************************************************************)
(* Model of eshop/cart/cart.py: the session-backed shopping cart.          *)
(*                                                                         *)
(* Python strings are sequences of one-character strings, a dict is the    *)
(* sequence of its entries in insertion order, a Decimal is its            *)
(* (sign, coefficient, exponent) triple.                                   *)
(***************************************************************************)
EXTENDS Integers, Sequences, FiniteSets, TLC

\* ------------------------------------------------------------------ bounds
\* Largest quantity a line item may reach in the model.
MaxQuantity == 2

\* The quantities a line item may reach in the model.
QuantityRange == -1..MaxQuantity

\* Catalog ids of the products the shopper can pass to the cart.
ProductIds == {1, 2}

\* Quantity arguments passed to add.
Quantities == {-1, 0, 1, 2}

\* Ids of the products the shop deletes from, and puts back into, its catalog.
Discontinued == {2}

\* ----------------------------------------------------------- str and int
Digits == <<"0", "1", "2", "3", "4", "5", "6", "7", "8", "9">>

DigitChar(n) == Digits[n + 1]

DigitVal(c) == CHOOSE d \in 0..9 : Digits[d + 1] = c

Abs(n) == IF n < 0 THEN -n ELSE n

RECURSIVE Pow10(_)
Pow10(k) == IF k <= 0 THEN 1 ELSE 10 * Pow10(k - 1)

\* str(n) for an int n >= 0.
RECURSIVE IntToStr(_)
IntToStr(n) ==
    IF n < 10 THEN <<DigitChar(n)>>
    ELSE IntToStr(n \div 10) \o <<DigitChar(n % 10)>>

\* int(s) for a string of decimal digits.
RECURSIVE StrToInt(_)
StrToInt(s) ==
    IF s = <<>> THEN 0
    ELSE 10 * StrToInt(SubSeq(s, 1, Len(s) - 1)) + DigitVal(s[Len(s)])

RECURSIVE Zeros(_)
Zeros(k) == IF k <= 0 THEN <<>> ELSE <<"0">> \o Zeros(k - 1)

\* ---------------------------------------------------------------- Decimal
Dec(sign, coef, exp) ==
    [type |-> "Decimal", sign |-> sign, coef |-> coef, exp |-> exp]

\* A Python int, in the same shape (exponent 0).
PyInt(n) ==
    [type |-> "int", sign |-> IF n < 0 THEN 1 ELSE 0, coef |-> Abs(n), exp |-> 0]

\* Prices a product can carry: Decimal('5.00') and Decimal('3.50').
Prices == {Dec(0, 500, -2), Dec(0, 350, -2)}

\* str(d) for a Decimal whose exponent is <= 0 and that is not tiny
\* (the plain, non-scientific notation of Decimal.__str__).
DecimalToStr(d) ==
    LET int == IntToStr(d.coef)
        dotplace == d.exp + Len(int)
        body == IF dotplace <= 0
                    THEN <<"0", ".">> \o Zeros(-dotplace) \o int
                ELSE IF dotplace >= Len(int)
                    THEN int \o Zeros(dotplace - Len(int))
                ELSE SubSeq(int, 1, dotplace) \o <<".">>
                         \o SubSeq(int, dotplace + 1, Len(int))
    IN  IF d.sign = 1 THEN <<"-">> \o body ELSE body

\* Decimal(s) for a numeric string: optional sign, digits, optional fraction.
DecimalFromStr(s) ==
    LET neg == s # <<>> /\ s[1] = "-"
        body == IF neg THEN SubSeq(s, 2, Len(s)) ELSE s
        dots == {i \in 1..Len(body) : body[i] = "."}
        dot == IF dots = {} THEN Len(body) + 1 ELSE CHOOSE i \in dots : TRUE
        intpart == SubSeq(body, 1, dot - 1)
        fracpart == SubSeq(body, dot + 1, Len(body))
    IN  Dec(IF neg THEN 1 ELSE 0, StrToInt(intpart \o fracpart), -Len(fracpart))

\* Decimal * int: signs xor, coefficients multiply, exponents add.
DecimalMul(d, n) ==
    Dec(IF (d.sign = 1) # (n < 0) THEN 1 ELSE 0, d.coef * Abs(n), d.exp)

\* a + b where at least one is a Decimal: exact, exponent the smaller one;
\* a zero result is negative only when both operands are negative zeros.
DecimalAdd(a, b) ==
    LET exp == IF a.exp < b.exp THEN a.exp ELSE b.exp
        sa == (IF a.sign = 1 THEN -1 ELSE 1) * a.coef * Pow10(a.exp - exp)
        sb == (IF b.sign = 1 THEN -1 ELSE 1) * b.coef * Pow10(b.exp - exp)
        r == sa + sb
    IN  IF r = 0
            THEN Dec(IF a.sign = 1 /\ b.sign = 1 THEN 1 ELSE 0, 0, exp)
        ELSE Dec(IF r < 0 THEN 1 ELSE 0, Abs(r), exp)

\* ------------------------------------------------------------------- dict
DictKeys(d) == {d[i].key : i \in 1..Len(d)}

DictHas(d, k) == k \in DictKeys(d)

DictIndex(d, k) == CHOOSE i \in 1..Len(d) : d[i].key = k

DictGet(d, k) == d[DictIndex(d, k)].value

\* d[k] = v: in place for an existing key, appended for a new one.
DictSet(d, k, v) ==
    IF DictHas(d, k)
        THEN [d EXCEPT ![DictIndex(d, k)] = [key |-> k, value |-> v]]
    ELSE Append(d, [key |-> k, value |-> v])

\* d.pop(k) gone wrong: the entry stays.
DictPop_keeps(d, k) == [raised |-> ~DictHas(d, k), dict |-> d]

\* d.pop(k): KeyError when k is missing.
DictPop(d, k) ==
    IF DictHas(d, k)
        THEN [raised |-> FALSE,
              dict |-> SubSeq(d, 1, DictIndex(d, k) - 1)
                          \o SubSeq(d, DictIndex(d, k) + 1, Len(d))]
    ELSE [raised |-> TRUE, dict |-> d]

\* ------------------------------------------------------------------ state
VARIABLES
    cart,              \* the dict object self.cart refers to
    session_has_cart,  \* CART_SESSION_ID in session; the value stored under
                       \* it is then the object `cart` itself (line 18)
    session_modified,  \* session.modified
    catalog,           \* ids of the products Product.objects holds
    call,              \* the last call made: its arguments, what its
                       \* membership test found, and its result
    round_trip,        \* an add, or an add and the remove of the same
                       \* product right after it: the product and the number
                       \* of line items the add found
    gen                \* the generator the last iter(cart) returned

vars ==
    <<cart, session_has_cart, session_modified, catalog, call, round_trip,
      gen>>

NoProduct == [id |-> 0]

\* found: what the call's membership test gave (product_id in self.cart for
\* add and remove, the cart key in the session for clear).
Call(op, product, quantity, override_quantity, found, ret, raised) ==
    [op |-> op, product |-> product, quantity |-> quantity,
     override_quantity |-> override_quantity, found |-> found, ret |-> ret,
     raised |-> raised]

NoTrip == [phase |-> "none", id |-> 0, size |-> 0, present |-> FALSE]

Trip(c) ==
    IF c.op = "add"
        THEN [phase |-> "added", id |-> c.product.id, size |-> Len(cart),
              present |-> DictHas(cart, IntToStr(c.product.id))]
    ELSE IF /\ c.op = "remove"
            /\ round_trip.phase = "added"
            /\ round_trip.id = c.product.id
        THEN [round_trip EXCEPT !.phase = "removed"]
    ELSE NoTrip

RecordCall(c) ==
    /\ call' = c
    /\ round_trip' = Trip(c)

\* ------------------------------------------------ the generator of __iter__
\* phase: "none" (no generator), "created" (iter(cart) returned it, nothing
\*   of __iter__ has run), "suspended" (at the yield of line 81), "finished"
\*   (it returned or raised).
\* lookup: product_lookup, built when the generator first ran.
\* used, left: the dict iterator's size of the dict when it was made, and the
\*   number of entries it still expects. ahead: the keys lying after its
\*   position. shifted: a key was inserted since it was made, so the dict may
\*   have been re-packed under it.
\* clean: neither the cart nor the catalog changed since the generator first
\*   ran. out: the keys of the records yielded so far, kept while clean.
NoGen ==
    [phase |-> "none", lookup |-> <<>>, used |-> 0, left |-> 0,
     ahead |-> <<>>, shifted |-> FALSE, clean |-> TRUE, out |-> <<>>]

KeySeq(c) == [i \in 1..Len(c) |-> c[i].key]

RECURSIVE Without(_, _)
Without(keys, k) ==
    IF keys = <<>> THEN <<>>
    ELSE IF keys[1] = k THEN Without(Tail(keys), k)
    ELSE <<keys[1]>> \o Without(Tail(keys), k)

\* What a suspended dict iterator has ahead of it once the dict went from c
\* to new: an inserted key is appended to the entries, a popped key is gone.
ahead_after(ahead, c, new) ==
    LET inserted == DictKeys(new) \ DictKeys(c)
        popped == DictKeys(c) \ DictKeys(new)
        kept == IF popped = {} THEN ahead
                ELSE Without(ahead, CHOOSE k \in popped : TRUE)
    IN  IF inserted = {} THEN kept
        ELSE Append(kept, CHOOSE k \in inserted : TRUE)

\* A generator that returned or raised: its frame, and with it the lookup and
\* the dict iterator, is released.
gen_finished(g) ==
    [NoGen EXCEPT !.phase = "finished", !.clean = g.clean, !.out = g.out]

\* The generator after a step that is not its own, which leaves the dict as
\* `new` and the catalog as `cat`. A generator that has not run yet holds
\* nothing; a finished one stays finished.
gen_after(new, cat) ==
    LET same == new = cart /\ cat = catalog
    IN  IF gen.phase = "finished"
            THEN [gen EXCEPT !.clean = @ /\ same,
                             !.out = IF same THEN @ ELSE <<>>]
        ELSE IF gen.phase = "suspended"
            THEN [gen EXCEPT
                     !.ahead = ahead_after(@, cart, new),
                     !.shifted = @ \/ DictKeys(new) \ DictKeys(cart) # {},
                     !.clean = @ /\ same,
                     !.out = IF same THEN @ ELSE <<>>]
        ELSE gen

Record(c, new, cat) ==
    /\ RecordCall(c)
    /\ gen' = gen_after(new, cat)

\* The Product instances a caller can hold: product 1 at either price (it is
\* repriced in the catalog between calls), product 2 at 3.50.
Products ==
    {p \in [id : ProductIds, price : Prices] :
        p.id = 1 \/ p.price = Dec(0, 350, -2)}

\* ------------------------------------------------------- Cart: construction
\* What session[key] = value may do to session.modified besides storing the
\* value: cart.py does not set the flag there; the session backend's
\* __setitem__ may (Django's SessionBase does).
SessionSetItemModified(modified) == {modified, TRUE}

\* _get_or_create_cart on a session whose cart key holds `stored` when
\* `has` is true: the stored object itself, or a new empty dict that is
\* stored under the key.
_get_or_create_cart(has, stored) ==
    IF has THEN [cart |-> stored, created |-> FALSE]
    ELSE [cart |-> <<>>, created |-> TRUE]

Init ==
    /\ cart = _get_or_create_cart(FALSE, <<>>).cart
    /\ session_has_cart = TRUE
    /\ session_modified \in SessionSetItemModified(FALSE)
    /\ catalog = ProductIds
    /\ call = Call("__init__", NoProduct, 0, FALSE, FALSE, "None", FALSE)
    /\ round_trip = NoTrip
    /\ gen = NoGen

\* Cart(request) on the session as it stands: another handle is built in the
\* same request and is the one followed from here on. session.modified is
\* written only by the session's __setitem__, when the dict is created.
__init__ ==
    LET got == _get_or_create_cart(session_has_cart, cart)
    IN  /\ cart' = got.cart
        /\ session_has_cart' = TRUE
        /\ session_modified' \in
               IF got.created THEN SessionSetItemModified(session_modified)
               ELSE {session_modified}
        /\ RecordCall(Call("__init__", NoProduct, 0, FALSE, FALSE, "None",
                           FALSE))
        /\ gen' = NoGen
        /\ UNCHANGED catalog

\* The request ends and a later request of the same session begins: the
\* session layer hands out the session with modified False, and the request
\* builds its Cart. The previous handle, and the dict it held if that was no
\* longer the session's, are gone.
new_request ==
    LET got == _get_or_create_cart(session_has_cart, cart)
    IN  /\ cart' = got.cart
        /\ session_has_cart' = TRUE
        /\ session_modified' \in
               IF got.created THEN SessionSetItemModified(FALSE) ELSE {FALSE}
        /\ RecordCall(Call("new_request", NoProduct, 0, FALSE, FALSE, "None",
                           FALSE))
        /\ gen' = NoGen
        /\ UNCHANGED catalog

\* ---------------------------------------------------------------- Cart.add
\* add gone wrong: the price is stored again on every add.
add_item_reprices(c, product, quantity, override_quantity) ==
    LET product_id == IntToStr(product.id)
        old == IF DictHas(c, product_id) THEN DictGet(c, product_id).quantity
               ELSE 0
    IN  DictSet(c, product_id,
                [quantity |-> IF override_quantity THEN quantity
                              ELSE old + quantity,
                 price |-> DecimalToStr(product.price)])

\* add gone wrong: override_quantity is ignored.
add_item_always_adds(c, product, quantity, override_quantity) ==
    LET product_id == IntToStr(product.id)
        c1 == IF ~DictHas(c, product_id)
                  THEN DictSet(c, product_id,
                               [quantity |-> 0,
                                price |-> DecimalToStr(product.price)])
              ELSE c
        item == DictGet(c1, product_id)
    IN  DictSet(c1, product_id,
                [item EXCEPT !.quantity = item.quantity + quantity])

\* add gone wrong: the quantity is subtracted.
add_item_subtracts(c, product, quantity, override_quantity) ==
    LET product_id == IntToStr(product.id)
        c1 == IF ~DictHas(c, product_id)
                  THEN DictSet(c, product_id,
                               [quantity |-> 0,
                                price |-> DecimalToStr(product.price)])
              ELSE c
        item == DictGet(c1, product_id)
    IN  DictSet(c1, product_id,
                [item EXCEPT !.quantity =
                    IF override_quantity THEN quantity
                    ELSE item.quantity - quantity])

add_item(c, product, quantity, override_quantity) ==
    LET product_id == IntToStr(product.id)
        c1 == IF ~DictHas(c, product_id)
                  THEN DictSet(c, product_id,
                               [quantity |-> 0,
                                price |-> DecimalToStr(product.price)])
              ELSE c
        item == DictGet(c1, product_id)
    IN  DictSet(c1, product_id,
                [item EXCEPT !.quantity =
                    IF override_quantity THEN quantity
                    ELSE item.quantity + quantity])

\* self.session.modified = True
mark_modified == session_modified' = TRUE

add(product, quantity, override_quantity) ==
    LET new == add_item(cart, product, quantity, override_quantity)
    IN  /\ DictGet(new, IntToStr(product.id)).quantity \in QuantityRange
        /\ cart' = new
        /\ mark_modified
        /\ Record(Call("add", product, quantity, override_quantity,
                       DictHas(cart, IntToStr(product.id)), "None", FALSE),
                  new, catalog)
        /\ UNCHANGED <<session_has_cart, catalog>>

\* --------------------------------------------------------------- Cart.save
save ==
    /\ mark_modified
    /\ Record(Call("save", NoProduct, 0, FALSE, FALSE, "None", FALSE), cart,
              catalog)
    /\ UNCHANGED <<cart, session_has_cart, catalog>>

\* ------------------------------------------------------------- Cart.remove
\* remove gone wrong: no membership test before the pop.
remove_guard_missing(c, product_id) == TRUE

remove_guard(c, product_id) == DictHas(c, product_id)

remove(product) ==
    LET product_id == IntToStr(product.id)
        popped == DictPop(cart, product_id)
    IN  /\ IF remove_guard(cart, product_id)
              THEN /\ cart' = popped.dict
                   /\ IF popped.raised THEN UNCHANGED session_modified
                      ELSE mark_modified
                   /\ Record(Call("remove", product, 0, FALSE,
                                  DictHas(cart, product_id),
                                  IF popped.raised THEN "KeyError" ELSE "None",
                                  popped.raised),
                             popped.dict, catalog)
           ELSE /\ UNCHANGED <<cart, session_modified>>
                /\ Record(Call("remove", product, 0, FALSE,
                               DictHas(cart, product_id), "None", FALSE),
                          cart, catalog)
        /\ UNCHANGED <<session_has_cart, catalog>>

\* -------------------------------------------------------------- Cart.clear
\* del session[CART_SESSION_ID]: the key is removed, KeyError when it is
\* absent. The dict the handle holds is not emptied and the handle keeps
\* referring to it.
session_del(has) == [raised |-> ~has, has |-> FALSE]

\* clear gone wrong: no membership test before the del.
clear_guard_missing(has) == TRUE

clear_guard(has) == has

clear ==
    LET deleted == session_del(session_has_cart)
    IN  /\ IF clear_guard(session_has_cart)
              THEN IF deleted.raised
                       THEN /\ UNCHANGED <<session_has_cart, session_modified>>
                            /\ Record(Call("clear", NoProduct, 0, FALSE,
                                           session_has_cart, "KeyError",
                                           TRUE), cart, catalog)
                   ELSE /\ session_has_cart' = deleted.has
                        /\ mark_modified
                        /\ Record(Call("clear", NoProduct, 0, FALSE,
                                       session_has_cart, "None", FALSE),
                                  cart, catalog)
           ELSE /\ UNCHANGED <<session_has_cart, session_modified>>
                /\ Record(Call("clear", NoProduct, 0, FALSE, session_has_cart,
                               "None", FALSE), cart, catalog)
        /\ UNCHANGED <<cart, catalog>>

\* ---------------------------------------------------- Cart.get_total_price
\* a + b as sum() applies it: int + int, or Decimal arithmetic once either
\* operand is a Decimal.
Plus(a, b) ==
    IF a.type = "int" /\ b.type = "int"
        THEN PyInt((IF a.sign = 1 THEN -a.coef ELSE a.coef)
                   + (IF b.sign = 1 THEN -b.coef ELSE b.coef))
    ELSE DecimalAdd(a, b)

\* get_total_price gone wrong: the quantity is left out.
item_total_unit(item) == DecimalFromStr(item.price)

item_total(item) == DecimalMul(DecimalFromStr(item.price), item.quantity)

\* sum(...) over the first n values of c, starting from the int 0.
RECURSIVE total_price_upto(_, _)
total_price_upto(c, n) ==
    IF n = 0 THEN PyInt(0)
    ELSE Plus(total_price_upto(c, n - 1), item_total(c[n].value))

total_price(c) == total_price_upto(c, Len(c))

get_total_price ==
    /\ Record(Call("get_total_price", NoProduct, 0, FALSE, FALSE,
                   total_price(cart), FALSE), cart, catalog)
    /\ UNCHANGED <<cart, session_has_cart, session_modified, catalog>>

\* ----------------------------------------------------------- Cart.__iter__
\* __iter__ gone wrong: a product for every key, in the catalog or not.
filter_id_in_any(cat, product_ids) ==
    {[id |-> StrToInt(k)] : k \in product_ids}

\* Product.objects.filter(id__in=product_ids): the catalog's products whose
\* id is the number one of the keys spells.
filter_id_in(cat, product_ids) ==
    {[id |-> p] : p \in {q \in cat : \E k \in product_ids : StrToInt(k) = q}}

product_lookup(products) ==
    [k \in {IntToStr(p.id) : p \in products} |->
        CHOOSE p \in products : IntToStr(p.id) = k]

in_lookup(lookup, product_id) == product_id \in DOMAIN lookup

enriched_item(item, product) ==
    LET price == DecimalFromStr(item.price)
    IN  [quantity |-> item.quantity, price |-> price, product |-> product,
         total_price |-> DecimalMul(price, item.quantity)]

\* iter(cart): a generator is returned and nothing of __iter__ runs yet.
__iter__ ==
    /\ RecordCall(Call("__iter__", NoProduct, 0, FALSE, FALSE, "generator",
                       FALSE))
    /\ gen' = [NoGen EXCEPT !.phase = "created"]
    /\ UNCHANGED <<cart, session_has_cart, session_modified, catalog>>

\* Lines 69-75 up to the first entry: the keys are listed, the catalog is
\* asked once, and the dict iterator of self.cart.items() is made.
gen_started(c, cat) ==
    [phase |-> "suspended",
     lookup |-> product_lookup(filter_id_in(cat, DictKeys(c))),
     used |-> Len(c), left |-> Len(c), ahead |-> KeySeq(c),
     shifted |-> FALSE, clean |-> TRUE, out |-> <<>>]

\* The for loop of line 75 from the entries `ahead`: entries whose key is not
\* in the lookup are passed over; an entry found when the iterator expects
\* none left is "dictionary keys changed during iteration".
RECURSIVE gen_loop(_, _, _)
gen_loop(g, ahead, left) ==
    IF ahead = <<>>
        THEN [kind |-> "StopIteration", key |-> <<>>,
              gen |-> gen_finished(g)]
    ELSE IF left = 0
        THEN [kind |-> "RuntimeError", key |-> <<>>,
              gen |-> gen_finished(g)]
    ELSE IF in_lookup(g.lookup, ahead[1])
        THEN [kind |-> "yield", key |-> ahead[1],
              gen |-> [g EXCEPT !.ahead = Tail(ahead), !.left = left - 1,
                                !.out = IF g.clean THEN Append(@, ahead[1])
                                        ELSE <<>>]]
    ELSE gen_loop(g, Tail(ahead), left - 1)

\* The outcomes of resuming the loop on dict c. A dict whose size differs
\* from the one the iterator was made on is "dictionary changed size during
\* iteration". After an insertion the dict may have been re-packed, which
\* moves entries under the iterator's position: it may then pass over any
\* number of the entries ahead (which of these happens is not specified for
\* a dict changed during iteration).
gen_resume(g, c) ==
    IF Len(c) # g.used
        THEN {[kind |-> "RuntimeError", key |-> <<>>,
               gen |-> gen_finished(g)]}
    ELSE {gen_loop(g, SubSeq(g.ahead, n + 1, Len(g.ahead)), g.left) :
             n \in IF g.shifted THEN 0..Len(g.ahead) ELSE {0}}

\* next(it) on the generator of the last iter(cart).
__next__ ==
    /\ gen.phase # "none"
    /\ \E o \in IF gen.phase = "finished"
                    THEN {[kind |-> "StopIteration", key |-> <<>>, gen |-> gen]}
                ELSE gen_resume(IF gen.phase = "created"
                                    THEN gen_started(cart, catalog) ELSE gen,
                                cart) :
           /\ gen' = o.gen
           /\ RecordCall(
                  IF o.kind = "yield"
                      THEN Call("__next__", NoProduct, 0, FALSE, FALSE,
                                enriched_item(DictGet(cart, o.key),
                                              o.gen.lookup[o.key]), FALSE)
                  ELSE Call("__next__", NoProduct, 0, FALSE, FALSE, o.kind,
                            TRUE))
    /\ UNCHANGED <<cart, session_has_cart, session_modified, catalog>>

\* ------------------------------------------------------------ Cart.__len__
RECURSIVE len_upto(_, _)
len_upto(c, n) ==
    IF n = 0 THEN 0 ELSE len_upto(c, n - 1) + c[n].value.quantity

len(c) == len_upto(c, Len(c))

\* len(cart), bool(cart): the builtin refuses a negative __len__.
builtin_len(n) ==
    IF n < 0 THEN [raised |-> TRUE, ret |-> "ValueError"]
    ELSE [raised |-> FALSE, ret |-> n]

\* cart.__len__() called as a method, or through the builtin len(cart).
__len__(builtin) ==
    LET n == len(cart)
        got == IF builtin THEN builtin_len(n) ELSE [raised |-> FALSE, ret |-> n]
    IN  /\ Record(Call(IF builtin THEN "len" ELSE "__len__", NoProduct, 0,
                       FALSE, FALSE, got.ret, got.raised), cart, catalog)
        /\ UNCHANGED <<cart, session_has_cart, session_modified, catalog>>

\* ---------------------------------------------------------------- catalog
\* The catalog collaborator: a product is deleted from, or put back into,
\* the catalog between cart calls.
catalog_delete(id) ==
    /\ id \in catalog
    /\ catalog' = catalog \ {id}
    /\ Record(Call("catalog_delete", [id |-> id], 0, FALSE, FALSE, "None",
                   FALSE),
              cart, catalog \ {id})
    /\ UNCHANGED <<cart, session_has_cart, session_modified>>

catalog_insert(id) ==
    /\ id \notin catalog
    /\ catalog' = catalog \cup {id}
    /\ Record(Call("catalog_insert", [id |-> id], 0, FALSE, FALSE, "None",
                   FALSE),
              cart, catalog \cup {id})
    /\ UNCHANGED <<cart, session_has_cart, session_modified>>

Next ==
    \/ __init__
    \/ new_request
    \/ \E product \in Products, quantity \in Quantities,
          override_quantity \in BOOLEAN :
            add(product, quantity, override_quantity)
    \/ \E id \in ProductIds : remove([id |-> id])
    \/ save
    \/ clear
    \/ get_total_price
    \/ __iter__
    \/ __next__
    \/ \E builtin \in BOOLEAN : __len__(builtin)
    \/ \E id \in Discontinued : catalog_delete(id)
    \/ \E id \in Discontinued : catalog_insert(id)

Spec == Init /\ [][Next]_vars

\* ------------------------------------------------- vocabulary of the claims
\* The line items of a dict as a mapping from product id string to item.
Items(c) == [k \in DictKeys(c) |-> DictGet(c, k)]

\* The line items the session holds: none when the cart key is absent.
SessionItems == IF session_has_cart THEN Items(cart) ELSE Items(<<>>)

\* The key the product of the last call has in the cart's mapping.
CallKey == IntToStr(call.product.id)

\* A Decimal or int (exponent >= -2) as a whole number of hundredths.
Hundredths(d) == (IF d.sign = 1 THEN -1 ELSE 1) * d.coef * Pow10(d.exp + 2)

RECURSIVE SumOver(_, _)
SumOver(S, f) ==
    IF S = {} THEN 0
    ELSE LET x == CHOOSE y \in S : TRUE
         IN  f[x] + SumOver(S \ {x}, f)

QuantitySum(c) ==
    SumOver(DictKeys(c), [k \in DictKeys(c) |-> DictGet(c, k).quantity])

PriceSum(c) ==
    SumOver(DictKeys(c),
            [k \in DictKeys(c) |->
                Hundredths(DecimalFromStr(DictGet(c, k).price))
                    * DictGet(c, k).quantity])

AllPositive(c) == \A i \in 1..Len(c) : c[i].value.quantity > 0

\* The step is the call `op`.
Calls(op) == call'.op = op

SessionUnchanged == UNCHANGED <<cart, session_has_cart, session_modified>>

\* ----------------------------------------------------------------- claims
\* C1: in every reachable state the line items the handle holds are the
\* line items the session stores under the cart key (none when absent).
C1_HandleIsSessionMapping == Items(cart) = SessionItems

\* C2 as stated: whenever a product was added and then removed, the mapping
\* has as many line items as before the add, whatever the cart held.
C2_RoundTripAnyCart ==
    round_trip.phase = "removed" => Len(cart) = round_trip.size

\* C2 amended: adding and then removing a product that was not in the cart
\* leaves the number of line items as before the add; when the product was
\* already in the cart the round trip leaves one line item fewer.
C2_RoundTrip ==
    round_trip.phase = "removed" =>
        Len(cart) = IF round_trip.present THEN round_trip.size - 1
                    ELSE round_trip.size

C2_Witness ==
    /\ round_trip.phase = "removed"
    /\ ~round_trip.present
    /\ round_trip.size = 1
    /\ Len(cart) = 1

\* C3: an add for a product id already in the cart leaves the stored price
\* as it was, whatever price the product now carries and with or without
\* override, and the item's total is that first price times its whole
\* quantity.
C3_PriceSetAtFirstAdd ==
    [][(Calls("add") /\ DictHas(cart, CallKey')) =>
           /\ call'.found
           /\ DictGet(cart', CallKey').price = DictGet(cart, CallKey').price
           /\ Hundredths(item_total(DictGet(cart', CallKey')))
                  = Hundredths(DecimalFromStr(DictGet(cart, CallKey').price))
                        * DictGet(cart', CallKey').quantity]_vars

C3_Witness ==
    /\ call.op = "add"
    /\ call.found
    /\ DecimalToStr(call.product.price) # DictGet(cart, CallKey).price
    /\ DictGet(cart, CallKey).quantity = 2

\* C4: add(p, n, override) leaves p with quantity n under override and with
\* its previous quantity (0 when absent) plus n otherwise; every other line
\* item is unchanged and the session is marked modified.
C4_AddQuantity ==
    [][Calls("add") =>
           /\ ~call'.raised
           /\ DictKeys(cart') = DictKeys(cart) \cup {CallKey'}
           /\ DictGet(cart', CallKey').quantity =
                  IF call'.override_quantity THEN call'.quantity
                  ELSE (IF DictHas(cart, CallKey')
                            THEN DictGet(cart, CallKey').quantity
                        ELSE 0) + call'.quantity
           /\ \A k \in DictKeys(cart) \ {CallKey'} :
                  DictGet(cart', k) = DictGet(cart, k)
           /\ session_modified']_vars

C4_Witness ==
    /\ call.op = "add"
    /\ call.override_quantity
    /\ call.quantity = 2
    /\ call.found
    /\ call.product.id = 2
    /\ Len(cart) = 2
    /\ DictGet(cart, <<"1">>).quantity = 1
    /\ DictGet(cart, <<"2">>).quantity = 2
    /\ session_modified

\* C5 as stated: clear() on a cart that is empty or absent from the session
\* does not raise and leaves the session's contents and modified flag as
\* they were.
C5_ClearEmptyIsNoOp ==
    [][(Calls("clear") /\ (~session_has_cart \/ cart = <<>>)) =>
           ~call'.raised /\ SessionUnchanged]_vars

\* C5 amended: clear() on a cart that is empty or absent from the session
\* does not raise; when the cart key is absent it leaves the session as it
\* was, and when the key is present with an empty mapping it deletes the key
\* and marks the session modified.
C5_ClearEmptyOrAbsent ==
    [][(Calls("clear") /\ (~session_has_cart \/ cart = <<>>)) =>
           /\ ~call'.raised
           /\ cart' = cart
           /\ IF session_has_cart
                  THEN ~session_has_cart' /\ session_modified'
              ELSE UNCHANGED <<session_has_cart, session_modified>>]_vars

C5_Witness ==
    /\ call.op = "clear"
    /\ ~call.found
    /\ ~session_has_cart
    /\ cart # <<>>

\* C6: every record an iteration yields is for a line item of the mapping
\* and carries its stored quantity, its snapshot price and total_price =
\* price * quantity; an iteration run to its end with no change of the cart
\* or the catalog meanwhile raises nothing and has yielded exactly one record
\* for each line item whose product id is in the catalog and none for the
\* others; iter(cart) and next(it) change neither the cart's mapping nor the
\* session.
C6_IterateSkipsMissing ==
    [][/\ (Calls("__iter__") \/ Calls("__next__")) => SessionUnchanged
       /\ (Calls("__next__") /\ ~call'.raised) =>
              LET k == IntToStr(call'.ret.product.id)
              IN  /\ DictHas(cart, k)
                  /\ call'.ret.quantity = DictGet(cart, k).quantity
                  /\ DecimalToStr(call'.ret.price) = DictGet(cart, k).price
                  /\ Hundredths(call'.ret.total_price)
                         = Hundredths(call'.ret.price) * call'.ret.quantity
                  /\ gen'.clean => gen'.out[Len(gen'.out)] = k
       /\ (Calls("__next__") /\ call'.raised /\ gen'.clean) =>
              LET found == DictKeys(cart) \cap {IntToStr(p) : p \in catalog}
              IN  /\ call'.ret = "StopIteration"
                  /\ Len(gen'.out) = Cardinality(found)
                  /\ {gen'.out[i] : i \in 1..Len(gen'.out)} = found]_vars

C6_Witness ==
    /\ call.op = "__next__"
    /\ call.raised
    /\ call.ret = "StopIteration"
    /\ gen.clean
    /\ Len(cart) = 2
    /\ gen.out = <<(<<"1">>)>>
    /\ DictGet(cart, <<"1">>).quantity = 2
    /\ 2 \notin catalog

\* C7: remove(p) deletes p's line item and marks the session modified when p
\* is in the cart, leaving the other line items unchanged; when p is not in
\* the cart it raises nothing and changes neither the mapping nor the
\* modified flag.
C7_Remove ==
    [][Calls("remove") =>
           /\ ~call'.raised
           /\ session_has_cart' = session_has_cart
           /\ IF DictHas(cart, CallKey')
                  THEN /\ DictKeys(cart') = DictKeys(cart) \ {CallKey'}
                       /\ \A k \in DictKeys(cart') :
                              DictGet(cart', k) = DictGet(cart, k)
                       /\ session_modified'
              ELSE UNCHANGED <<cart, session_modified>>]_vars

C7_Witness ==
    /\ call.op = "remove"
    /\ ~call.found
    /\ Len(cart) = 1
    /\ ~session_modified

\* C8 as stated: whatever quantity arguments add is given, every line item
\* left in the mapping has a positive quantity.
C8_QuantitiesPositive == AllPositive(cart)

\* C8 amended: a call made on a mapping whose quantities are all positive
\* leaves them all positive, provided that an add is given a quantity of at
\* least 1; so the quantities stay positive as long as every add is.
C8_PositiveWhenAddsPositive ==
    [][(AllPositive(cart) /\ (Calls("add") => call'.quantity >= 1)) =>
           AllPositive(cart')]_vars

C8_Witness ==
    /\ call.op = "add"
    /\ call.quantity = 1
    /\ ~call.override_quantity
    /\ call.found
    /\ Len(cart) = 2
    /\ AllPositive(cart)
    /\ DictGet(cart, CallKey).quantity = 2

\* C9: get_total_price() returns the sum over all line items of the mapping,
\* in the catalog or not, of snapshot price * quantity, the int 0 for an
\* empty cart and exactly 13.50 for {1: 2 x 5.00, 2: 1 x 3.50}; it changes
\* neither the cart nor the session.
C9_TotalPrice ==
    [][Calls("get_total_price") =>
           /\ Hundredths(call'.ret) = PriceSum(cart)
           /\ cart = <<>> => call'.ret = PyInt(0)
           /\ Items(cart) = (<<"1">> :> [quantity |-> 2,
                                          price |-> <<"5", ".", "0", "0">>]
                             @@ <<"2">> :> [quantity |-> 1,
                                             price |-> <<"3", ".", "5", "0">>])
                  => call'.ret = Dec(0, 1350, -2)
           /\ SessionUnchanged]_vars

C9_Witness ==
    /\ call.op = "get_total_price"
    /\ Len(cart) = 2
    /\ DictGet(cart, <<"1">>) = [quantity |-> 2, price |-> <<"5", ".", "0", "0">>]
    /\ DictGet(cart, <<"2">>) = [quantity |-> 1, price |-> <<"3", ".", "5", "0">>]
    /\ 2 \notin catalog
    /\ call.ret = Dec(0, 1350, -2)

\* C10: length() of the cart, asked through len(cart) or as cart.__len__(),
\* returns the sum of the quantities of all line items, zero for an empty
\* cart; an add without override raises that sum by the quantity added and a
\* remove lowers it by the quantity of the line item removed.
C10_Length ==
    [][/\ (Calls("len") \/ Calls("__len__")) =>
              /\ ~call'.raised
              /\ call'.ret = QuantitySum(cart)
              /\ cart = <<>> => call'.ret = 0
       /\ (Calls("add") /\ ~call'.override_quantity) =>
              len(cart') = len(cart) + call'.quantity
       /\ (Calls("remove") /\ DictHas(cart, CallKey')) =>
              len(cart') = len(cart) - DictGet(cart, CallKey').quantity]_vars

====
